---- MODULE Spec2Model ----
(***************************************************************************)
(* A model of the Google Generative AI integration layer:                  *)
(*   constants/GoogleAIConfig  - the model catalog and getApiKey           *)
(*   services/GoogleAI         - the class GoogleAIService (the Adapter)   *)
(*   hooks/useGoogleAI         - the React hook and its shared instance    *)
(*                                                                         *)
(* Conventions.  A JavaScript value that may be undefined or null is a     *)
(* sequence of length 0 (absent) or 1 (present).  Fractions are kept in    *)
(* hundredths: temperature 0.4 is 40, topP 0.95 is 95.  A string is a TLA+ *)
(* string; where the code inspects its characters (String.includes) the    *)
(* characters are looked up in Chars.                                      *)
(***************************************************************************)
EXTENDS Integers, Sequences, FiniteSets, TLC

None == <<>>
Some(x) == <<x>>

(***************************************************************************)
(* Bounds of the model.                                                    *)
(***************************************************************************)
\* Longest vendor stream, in chunks.
MaxChunks == 2
\* Most vendor clients (and model handles) ever constructed in one run.
MaxConstructions == 1

(***************************************************************************)
(* constants/GoogleAIConfig                                                *)
(***************************************************************************)
GEMINI_MODELS ==
    [ GEMINI_PRO           |-> "gemini-pro",
      GEMINI_PRO_VISION    |-> "gemini-pro-vision",
      GEMINI_15_PRO        |-> "gemini-1.5-pro",
      GEMINI_15_FLASH      |-> "gemini-1.5-flash",
      GEMINI_20_FLASH      |-> "gemini-2.0-flash",
      GEMINI_20_FLASH_LITE |-> "gemini-2.0-flash-lite",
      GEMINI_20_PRO        |-> "gemini-2.0-pro" ]

CatalogNames == { GEMINI_MODELS[k] : k \in DOMAIN GEMINI_MODELS }

\* Model names a caller may pass that are not in the catalog: the empty
\* string and a name holding both family substrings.
OtherModelNames == { "", "gemini-1.5-to-gemini-2.0" }

ModelNames == CatalogNames \cup OtherModelNames

\* The characters of every string whose characters the code inspects.
Chars ==
    "gemini-pro" :> <<"g", "e", "m", "i", "n", "i", "-", "p", "r", "o">> @@
    "gemini-pro-vision" :> <<"g", "e", "m", "i", "n", "i", "-", "p", "r", "o", "-", "v", "i", "s", "i", "o", "n">> @@
    "gemini-1.5-pro" :> <<"g", "e", "m", "i", "n", "i", "-", "1", ".", "5", "-", "p", "r", "o">> @@
    "gemini-1.5-flash" :> <<"g", "e", "m", "i", "n", "i", "-", "1", ".", "5", "-", "f", "l", "a", "s", "h">> @@
    "gemini-2.0-flash" :> <<"g", "e", "m", "i", "n", "i", "-", "2", ".", "0", "-", "f", "l", "a", "s", "h">> @@
    "gemini-2.0-flash-lite" :> <<"g", "e", "m", "i", "n", "i", "-", "2", ".", "0", "-", "f", "l", "a", "s", "h", "-", "l", "i", "t", "e">> @@
    "gemini-2.0-pro" :> <<"g", "e", "m", "i", "n", "i", "-", "2", ".", "0", "-", "p", "r", "o">> @@
    "" :> <<>> @@
    "gemini-1.5-to-gemini-2.0" :> <<"g", "e", "m", "i", "n", "i", "-", "1", ".", "5", "-", "t", "o", "-", "g", "e", "m", "i", "n", "i", "-", "2", ".", "0">> @@
    "gemini-2.0" :> <<"g", "e", "m", "i", "n", "i", "-", "2", ".", "0">> @@
    "gemini-1.5" :> <<"g", "e", "m", "i", "n", "i", "-", "1", ".", "5">>

\* String.prototype.includes: pattern occurs at some position of s.
includes(s, pattern) ==
    LET cs == Chars[s]
        cp == Chars[pattern]
    IN  \E i \in 0 .. (Len(cs) - Len(cp)) : SubSeq(cs, i + 1, i + Len(cp)) = cp

(***************************************************************************)
(* services/GoogleAI: configuration values                                 *)
(***************************************************************************)
getDefaultSafetySettings ==
    << [category |-> "HARM_CATEGORY_HARASSMENT",        threshold |-> "BLOCK_MEDIUM_AND_ABOVE"],
       [category |-> "HARM_CATEGORY_HATE_SPEECH",       threshold |-> "BLOCK_MEDIUM_AND_ABOVE"],
       [category |-> "HARM_CATEGORY_SEXUALLY_EXPLICIT", threshold |-> "BLOCK_MEDIUM_AND_ABOVE"],
       [category |-> "HARM_CATEGORY_DANGEROUS_CONTENT", threshold |-> "BLOCK_MEDIUM_AND_ABOVE"] >>

\* A variant that tests the families in the other order.
getDefaultGenerationConfigSwapped(modelName) ==
    LET config == [temperature |-> 90, topK |-> 1, topP |-> 95, maxOutputTokens |-> 2048]
    IN  IF includes(modelName, "gemini-1.5")
        THEN [config EXCEPT !.maxOutputTokens = 8192]
        ELSE IF includes(modelName, "gemini-2.0")
        THEN [config EXCEPT !.temperature = 40, !.maxOutputTokens = 8192]
        ELSE config

getDefaultGenerationConfig(modelName) ==
    LET config == [temperature |-> 90, topK |-> 1, topP |-> 95, maxOutputTokens |-> 2048]
    IN  IF includes(modelName, "gemini-2.0")
        THEN [config EXCEPT !.temperature = 40, !.maxOutputTokens = 8192]
        ELSE IF includes(modelName, "gemini-1.5")
        THEN [config EXCEPT !.maxOutputTokens = 8192]
        ELSE config

\* A caller-supplied generation config.
CustomGenerationConfigs ==
    { [temperature |-> 10, topK |-> 40, topP |-> 80, maxOutputTokens |-> 256] }

\* Caller-supplied safety settings: the empty array (truthy in JavaScript).
CustomSafetySettings == { <<>> }

ApiKeys == { "", "YOUR_API_KEY" }

\* The values of the interface GoogleAIConfig the model constructs with.
GoogleAIConfigs ==
    [ apiKey           : ApiKeys,
      modelName        : ModelNames,
      safetySettings   : {None} \cup { Some(s) : s \in CustomSafetySettings },
      generationConfig : {None} \cup { Some(g) : g \in CustomGenerationConfigs } ]

(***************************************************************************)
(* State                                                                   *)
(***************************************************************************)
VARIABLES
    \* the vendor SDK, as the program drives it
    genAIClients,     \* number of GoogleGenerativeAI clients constructed
    modelHandles,     \* number of model handles built by getGenerativeModel
    \* a GoogleAIService used directly
    adapter,          \* the instance the caller holds, if any
    lastCtor,         \* the latest `new GoogleAIService(config)` and its outcome
    call,             \* the caller's generateContent / generateContentStream call
    lastChat,         \* the latest session made by startChat, if any
    \* hooks/useGoogleAI
    googleAIService,  \* the module's shared instance (null at load)
    env,              \* process.env.GOOGLE_AI_API_KEY, if set
    configuredKey,    \* the value of the constant GOOGLE_AI_API_KEY
    rendered,         \* per hook instance: has its component rendered
    props,            \* per hook instance: props?.modelName of the latest render
    effectPending,    \* per hook instance: the effect is due to run
    isLoading,        \* per hook instance: useState(false)
    isReady,          \* per hook instance: useState(false)
    error,            \* per hook instance: useState(null)
    inits,            \* initializeService runs suspended at `await getApiKey()`
    calls             \* the callers' calls of the hook's operations, by slot

svcVars == << adapter, lastCtor, call >>
vendorVars == << genAIClients, modelHandles >>
reactVars == << rendered, props, effectPending, isLoading, isReady, error >>
hookVars == << googleAIService, env, configuredKey, rendered, props, effectPending,
               isLoading, isReady, error, inits, calls >>
vars == << genAIClients, modelHandles, adapter, lastCtor, call, lastChat,
           googleAIService, env, configuredKey, rendered, props, effectPending,
           isLoading, isReady, error, inits, calls >>

(***************************************************************************)
(* The vendor, as an environment: what a call to it may answer.            *)
(***************************************************************************)
Prompts == { "", "Tell me about quantum computing" }
Texts == { "", "Quantum computing uses qubits." }
ChunkTexts == { "A", "B" }

\* What the vendor may throw: an Error with a message, or a value that is
\* not an Error.
Thrown ==
    { [isError |-> TRUE, message |-> m] : m \in { "quota exceeded", "" } }
        \cup { [isError |-> FALSE, message |-> "" ] }

\* One request/response round trip: model.generateContent rejects, or
\* result.response rejects, or response.text() throws, or a text comes back.
VendorOutcomes ==
    { [kind |-> "ok", text |-> t, thrown |-> None] : t \in Texts }
        \cup { [kind |-> k, text |-> "", thrown |-> Some(e)] :
                 k \in { "callRejects", "responseRejects", "textThrows" }, e \in Thrown }

BoundedSeq(S, n) == UNION { [1 .. k -> S] : k \in 0 .. n }

\* One stream: the chunks that arrive, then its end or a failure (of the
\* request itself when no chunk arrived, of the iteration or of chunk.text()).
VendorStreams ==
    [ chunks : BoundedSeq(ChunkTexts, MaxChunks),
      fail   : {None} \cup { Some(e) : e \in Thrown } ]

(***************************************************************************)
(* services/GoogleAI: class GoogleAIService                                *)
(***************************************************************************)
\* A variant that builds the vendor objects before it checks the key.
GoogleAIServiceLateCheck(config) ==
    LET modelName == IF config.modelName # "" THEN config.modelName ELSE "gemini-pro"
    IN  [ threw    |-> config.apiKey = "",
          message  |-> IF config.apiKey = "" THEN "Google AI API key is required" ELSE "",
          clients  |-> 1,
          handles  |-> 1,
          instance |-> IF config.apiKey = "" THEN None ELSE
              Some([ genAI     |-> config.apiKey,
                     modelName |-> modelName,
                     model     |-> [ model |-> modelName,
                                     safetySettings |-> getDefaultSafetySettings,
                                     generationConfig |-> getDefaultGenerationConfig(modelName) ] ]) ]

\* constructor(config): what it throws, the vendor objects it constructs and
\* the instance it yields.
GoogleAIService(config) ==
    IF config.apiKey = ""
    THEN [ threw |-> TRUE, message |-> "Google AI API key is required",
           clients |-> 0, handles |-> 0, instance |-> None ]
    ELSE LET modelName == IF config.modelName # "" THEN config.modelName ELSE "gemini-pro"
             params ==
                 [ model |-> modelName,
                   safetySettings |->
                       IF config.safetySettings # None
                       THEN config.safetySettings[1] ELSE getDefaultSafetySettings,
                   generationConfig |->
                       IF config.generationConfig # None
                       THEN config.generationConfig[1]
                       ELSE getDefaultGenerationConfig(modelName) ]
         IN  [ threw |-> FALSE, message |-> "",
               clients |-> 1, handles |-> 1,
               instance |-> Some([ genAI |-> config.apiKey,
                                   modelName |-> modelName,
                                   model |-> params ]) ]

\* catch (error): error instanceof Error ? error.message : 'Unknown error occurred'
errorMessage(e) == IF e.isError THEN e.message ELSE "Unknown error occurred"

\* A variant without the try/catch: the vendor's failure propagates.
generateContentUncaught(outcome) ==
    IF outcome.kind = "ok"
    THEN [ raised |-> FALSE, thrown |-> None,
           value |-> Some([text |-> outcome.text, error |-> None]) ]
    ELSE [ raised |-> TRUE, thrown |-> outcome.thrown, value |-> None ]

\* generateContent(prompt), given the vendor's answer: how the call settles.
generateContent(outcome) ==
    IF outcome.kind = "ok"
    THEN [ raised |-> FALSE, thrown |-> None,
           value |-> Some([text |-> outcome.text, error |-> None]) ]
    ELSE [ raised |-> FALSE, thrown |-> None,
           value |-> Some([text |-> "", error |-> Some(errorMessage(outcome.thrown[1]))]) ]

\* What the vendor's stream does next: a chunk arrives, the stream ends, or
\* it fails (the request, the iteration or chunk.text() throws).
StreamEvent(kind, text, thrown) == [ kind |-> kind, text |-> text, thrown |-> thrown ]

\* A variant that hands the first chunk to onChunk twice.
generateContentStreamTwice(c, event) ==
    IF event.kind = "chunk"
    THEN [c EXCEPT !.onChunkCalls = IF @ = <<>> THEN << event.text, event.text >>
                                    ELSE Append(@, event.text)]
    ELSE IF event.kind = "fail"
    THEN [c EXCEPT !.pc = "settled",
                   !.outcome = [raised |-> TRUE, thrown |-> event.thrown, value |-> None]]
    ELSE [c EXCEPT !.pc = "settled",
                   !.outcome = [raised |-> FALSE, thrown |-> None, value |-> None]]

\* generateContentStream(prompt, onChunk), one resumption of it: the next
\* chunk arrives and goes to onChunk, or the stream fails and the error is
\* rethrown, or the stream ends and the call resolves.
generateContentStream(c, event) ==
    IF event.kind = "chunk"
    THEN [c EXCEPT !.onChunkCalls = Append(@, event.text)]
    ELSE IF event.kind = "fail"
    THEN [c EXCEPT !.pc = "settled",
                   !.outcome = [raised |-> TRUE, thrown |-> event.thrown, value |-> None]]
    ELSE [c EXCEPT !.pc = "settled",
                   !.outcome = [raised |-> FALSE, thrown |-> None, value |-> None]]

\* The next event of a stream of which pos chunks have arrived.
NextStreamEvent(stream, pos) ==
    IF pos < Len(stream.chunks) THEN StreamEvent("chunk", stream.chunks[pos + 1], None)
    ELSE IF stream.fail # None THEN StreamEvent("fail", "", stream.fail)
    ELSE StreamEvent("end", "", None)

Histories == { <<>>, << [role |-> "user", parts |-> "Hello"] >> }

\* startChat(history = []): the session the vendor makes on this.model, as the
\* generation config of the handle it is made on and the params it is given.
startChat(instance, history) ==
    [ handleConfig |-> instance.model.generationConfig,
      historyArg |-> history,
      history |-> IF history # None THEN history[1] ELSE <<>>,
      generationConfig |-> getDefaultGenerationConfig(instance.modelName) ]

(***************************************************************************)
(* A caller that constructs GoogleAIService instances and starts chats     *)
(***************************************************************************)
NewAdapter(config) ==
    LET r == GoogleAIService(config)
    IN  /\ genAIClients + r.clients <= MaxConstructions
        /\ genAIClients' = genAIClients + r.clients
        /\ modelHandles' = modelHandles + r.handles
        /\ adapter' = IF r.threw THEN adapter ELSE r.instance
        /\ lastCtor' = Some([config |-> config, threw |-> r.threw, message |-> r.message])
        /\ UNCHANGED << call, lastChat, hookVars >>

CallStartChat(history) ==
    /\ adapter # None
    /\ lastChat' = Some(startChat(adapter[1], history))
    /\ UNCHANGED << vendorVars, adapter, lastCtor, call, hookVars >>

Idle == [ pc |-> "idle", op |-> "none" ]

\* No component uses the hook.
NoHook ==
    /\ googleAIService = None
    /\ env = None
    /\ configuredKey = "YOUR_API_KEY"
    /\ rendered = << >>
    /\ props = << >>
    /\ effectPending = << >>
    /\ isLoading = << >>
    /\ isReady = << >>
    /\ error = << >>
    /\ inits = << >>
    /\ calls = << >>

InitAdapter ==
    /\ genAIClients = 0
    /\ modelHandles = 0
    /\ adapter = None
    /\ lastCtor = None
    /\ call = Idle
    /\ lastChat = None
    /\ NoHook

NextAdapter ==
    \/ \E config \in GoogleAIConfigs : NewAdapter(config)
    \/ \E history \in {None} \cup { Some(h) : h \in Histories } : CallStartChat(history)

SpecAdapter == InitAdapter /\ [][NextAdapter]_vars

(***************************************************************************)
(* A caller that awaits generateContent and generateContentStream calls   *)
(* on an instance it has constructed                                       *)
(***************************************************************************)
CallGenerateContent(prompt) ==
    /\ adapter # None
    /\ call.pc # "awaiting" /\ call.pc # "streaming"
    /\ call' = [ pc |-> "awaiting", op |-> "generateContent", prompt |-> prompt ]
    /\ UNCHANGED << vendorVars, adapter, lastCtor, lastChat, hookVars >>

SettleGenerateContent(outcome) ==
    /\ call.pc = "awaiting"
    /\ call' = [ pc |-> "settled", op |-> "generateContent", prompt |-> call.prompt,
                 vendor |-> outcome, outcome |-> generateContent(outcome) ]
    /\ UNCHANGED << vendorVars, adapter, lastCtor, lastChat, hookVars >>

CallGenerateContentStream(prompt, stream) ==
    /\ adapter # None
    /\ call.pc # "awaiting" /\ call.pc # "streaming"
    /\ call' = [ pc |-> "streaming", op |-> "generateContentStream", prompt |-> prompt,
                 stream |-> stream, pos |-> 0, onChunkCalls |-> <<>>,
                 outcome |-> [raised |-> FALSE, thrown |-> None, value |-> None] ]
    /\ UNCHANGED << vendorVars, adapter, lastCtor, lastChat, hookVars >>

ResumeGenerateContentStream ==
    /\ call.pc = "streaming"
    /\ LET event == NextStreamEvent(call.stream, call.pos)
       IN  call' = [ generateContentStream(call, event)
                       EXCEPT !.pos = IF event.kind = "chunk" THEN @ + 1 ELSE @ ]
    /\ UNCHANGED << vendorVars, adapter, lastCtor, lastChat, hookVars >>

\* The instance exists: it was constructed with a key and a catalog model.
InitCalls ==
    /\ \E name \in CatalogNames :
          LET config == [ apiKey |-> "YOUR_API_KEY", modelName |-> name,
                          safetySettings |-> None, generationConfig |-> None ]
          IN  /\ adapter = GoogleAIService(config).instance
              /\ lastCtor = Some([config |-> config, threw |-> FALSE, message |-> ""])
    /\ genAIClients = 1
    /\ modelHandles = 1
    /\ call = Idle
    /\ lastChat = None
    /\ NoHook

NextCalls ==
    \/ \E prompt \in Prompts : CallGenerateContent(prompt)
    \/ \E outcome \in VendorOutcomes : SettleGenerateContent(outcome)
    \/ \E prompt \in Prompts, stream \in VendorStreams : CallGenerateContentStream(prompt, stream)
    \/ ResumeGenerateContentStream

SpecCalls == InitCalls /\ [][NextCalls]_vars

(***************************************************************************)
(* constants/GoogleAIConfig: getApiKey                                     *)
(***************************************************************************)
\* The values process.env.GOOGLE_AI_API_KEY may have: unset, empty, a key.
EnvValues == { None, Some(""), Some("ENV_KEY") }

\* The values of the constant GOOGLE_AI_API_KEY: the placeholder the file
\* ships with, which its comment asks to replace, and the empty string of a
\* deployment that supplies the key through the environment only.
ConfiguredKeys == { "YOUR_API_KEY", "" }

\* A variant with ?? in place of ||: an empty override is returned.
getApiKeyNullish == IF env # None THEN env[1] ELSE configuredKey

\* process.env.GOOGLE_AI_API_KEY || GOOGLE_AI_API_KEY
getApiKey == IF env # None /\ env[1] # "" THEN env[1] ELSE configuredKey

(***************************************************************************)
(* hooks/useGoogleAI                                                       *)
(***************************************************************************)
\* Most initializeService runs suspended at the await at one time.
MaxInits == 2

Hooks == DOMAIN isReady
Slots == DOMAIN calls

\* props?.modelName as a component may pass it: undefined, or a catalog name.
HookModelNames == { None, Some(GEMINI_MODELS.GEMINI_20_FLASH) }

\* The chunks of a vendor stream, by position.
Alphabet == << "A", "B", "C", "D" >>

\* What the vendor answers to the hooks' calls: a text, or a failure with an
\* Error or with a value that is not an Error.
HookThrown ==
    { [isError |-> TRUE, message |-> "quota exceeded"], [isError |-> FALSE, message |-> ""] }

HookVendorOutcomes ==
    { o \in VendorOutcomes :
        \/ o.kind = "ok" /\ o.text # ""
        \/ o.kind = "callRejects" /\ o.thrown[1] \in HookThrown }

NotInitialized == [ isError |-> TRUE, message |-> "Google AI service is not initialized" ]

HookIdle ==
    [ pc |-> "idle", op |-> "none", hook |-> "none", arrived |-> <<>>, onChunkCalls |-> <<>>,
      inner   |-> [raised |-> FALSE, thrown |-> None, value |-> None],
      outcome |-> [raised |-> FALSE, thrown |-> None, value |-> None] ]

\* The component of hook instance h renders (mounts, or renders again with
\* another modelName): the effect's dependency [props?.modelName] is new.
Render(h, modelName) ==
    /\ ~effectPending[h]
    /\ rendered[h] => modelName # props[h]
    /\ rendered' = [rendered EXCEPT ![h] = TRUE]
    /\ props' = [props EXCEPT ![h] = modelName]
    /\ effectPending' = [effectPending EXCEPT ![h] = TRUE]
    /\ UNCHANGED << vendorVars, svcVars, lastChat, googleAIService, env, configuredKey,
                    isLoading, isReady, error, inits, calls >>

\* A variant without the test `if (!googleAIService)`.
RunEffectNoGuard(h) ==
    /\ effectPending[h]
    /\ effectPending' = [effectPending EXCEPT ![h] = FALSE]
    /\ Len(inits) < MaxInits
    /\ inits' = Append(inits, [hook |-> h, apiKey |-> getApiKey, modelName |-> props[h]])
    /\ UNCHANGED << vendorVars, svcVars, lastChat, googleAIService, env, configuredKey,
                    rendered, props, isLoading, isReady, error, calls >>

\* A variant that calls setIsReady(true) before it looks for the instance.
RunEffectEagerReady(h) ==
    /\ effectPending[h]
    /\ effectPending' = [effectPending EXCEPT ![h] = FALSE]
    /\ isReady' = [isReady EXCEPT ![h] = TRUE]
    /\ IF googleAIService = None
       THEN /\ Len(inits) < MaxInits
            /\ inits' = Append(inits, [hook |-> h, apiKey |-> getApiKey, modelName |-> props[h]])
       ELSE UNCHANGED inits
    /\ UNCHANGED << vendorVars, svcVars, lastChat, googleAIService, env, configuredKey,
                    rendered, props, isLoading, error, calls >>

\* The effect runs initializeService: with no shared instance it calls
\* getApiKey and suspends at the await; with one it goes on to
\* setIsReady(true) at once.
RunEffect(h) ==
    /\ effectPending[h]
    /\ effectPending' = [effectPending EXCEPT ![h] = FALSE]
    /\ IF googleAIService = None
       THEN /\ Len(inits) < MaxInits
            /\ inits' = Append(inits, [hook |-> h, apiKey |-> getApiKey, modelName |-> props[h]])
            /\ UNCHANGED isReady
       ELSE /\ isReady' = [isReady EXCEPT ![h] = TRUE]
            /\ UNCHANGED inits
    /\ UNCHANGED << vendorVars, svcVars, lastChat, googleAIService, env, configuredKey,
                    rendered, props, isLoading, error, calls >>

\* The oldest suspended initializeService resumes after the await: it throws
\* on an empty key, else constructs the shared instance and sets isReady;
\* what it throws, or the constructor throws, goes to setError.
ResumeInit ==
    /\ inits # << >>
    /\ LET i == Head(inits)
           r == GoogleAIService(
                    [ apiKey |-> i.apiKey,
                      modelName |-> IF i.modelName # None /\ i.modelName[1] # ""
                                    THEN i.modelName[1] ELSE GEMINI_MODELS.GEMINI_PRO,
                      safetySettings |-> None,
                      generationConfig |-> None ])
       IN  /\ inits' = Tail(inits)
           /\ IF i.apiKey = ""
              THEN /\ error' = [error EXCEPT ![i.hook] = Some("Google AI API key is not configured")]
                   /\ UNCHANGED << googleAIService, isReady, vendorVars >>
              ELSE IF r.threw
              THEN /\ error' = [error EXCEPT ![i.hook] = Some(r.message)]
                   /\ genAIClients' = genAIClients + r.clients
                   /\ modelHandles' = modelHandles + r.handles
                   /\ UNCHANGED << googleAIService, isReady >>
              ELSE /\ googleAIService' = r.instance
                   /\ genAIClients' = genAIClients + r.clients
                   /\ modelHandles' = modelHandles + r.handles
                   /\ isReady' = [isReady EXCEPT ![i.hook] = TRUE]
                   /\ UNCHANGED error
    /\ UNCHANGED << svcVars, lastChat, env, configuredKey, rendered, props, effectPending,
                    isLoading, calls >>

FreeSlot(c) == calls[c].pc \in { "idle", "settled" }

\* A call that finds no shared instance: it throws before it sets any state.
Rejected(op, h) ==
    [ HookIdle EXCEPT !.pc = "settled", !.op = op, !.hook = h,
                      !.outcome = [raised |-> TRUE, thrown |-> Some(NotInitialized), value |-> None] ]

\* A variant of generateResponse whose catch path skips setIsLoading(false).
generateResponseNoFinally(response) ==
    IF response.raised
    THEN [ setError |-> Some(errorMessage(response.thrown[1])), returned |-> "",
           setIsLoading |-> Some(FALSE) ]
    ELSE IF response.value[1].error # None /\ response.value[1].error[1] # ""
    THEN [ setError |-> response.value[1].error, returned |-> "", setIsLoading |-> None ]
    ELSE [ setError |-> None, returned |-> response.value[1].text,
           setIsLoading |-> Some(FALSE) ]

\* generateResponse from the await on, given how googleAIService.generateContent
\* settled: the setError call it makes if any, what it returns, and the
\* setIsLoading call of its finally block.
generateResponse(response) ==
    IF response.raised
    THEN [ setError |-> Some(errorMessage(response.thrown[1])), returned |-> "",
           setIsLoading |-> Some(FALSE) ]
    ELSE IF response.value[1].error # None /\ response.value[1].error[1] # ""
    THEN [ setError |-> response.value[1].error, returned |-> "",
           setIsLoading |-> Some(FALSE) ]
    ELSE [ setError |-> None, returned |-> response.value[1].text,
           setIsLoading |-> Some(FALSE) ]

\* A variant of generateResponseStream whose catch sets the error and throws
\* the failure on to the caller.
generateResponseStreamRethrow(settled) ==
    IF settled.raised
    THEN [ setError |-> Some(errorMessage(settled.thrown[1])), setIsLoading |-> Some(FALSE),
           rejects |-> TRUE ]
    ELSE [ setError |-> None, setIsLoading |-> Some(FALSE), rejects |-> FALSE ]

\* generateResponseStream from the await on, given how
\* googleAIService.generateContentStream settled: the catch swallows the
\* failure, so the promise resolves on both paths.
generateResponseStream(settled) ==
    IF settled.raised
    THEN [ setError |-> Some(errorMessage(settled.thrown[1])), setIsLoading |-> Some(FALSE),
           rejects |-> FALSE ]
    ELSE [ setError |-> None, setIsLoading |-> Some(FALSE), rejects |-> FALSE ]

\* The state after the setError / setIsLoading calls a settling call makes.
AfterSetError(h, r) == IF r.setError # None THEN [error EXCEPT ![h] = r.setError] ELSE error
\* A variant in which isLoading counts the calls in flight: the flag is
\* written only when the settling call leaves none.
AfterSetIsLoadingCounted(h, r) ==
    IF r.setIsLoading # None /\ \A d \in DOMAIN calls : calls'[d].pc \in { "idle", "settled" }
    THEN [isLoading EXCEPT ![h] = r.setIsLoading[1]]
    ELSE isLoading

AfterSetIsLoading(h, r) ==
    IF r.setIsLoading # None THEN [isLoading EXCEPT ![h] = r.setIsLoading[1]] ELSE isLoading

\* A variant of generateResponse without the check of googleAIService.
CallGenerateResponseNoCheck(c, h) ==
    /\ rendered[h]
    /\ FreeSlot(c)
    /\ calls' = [calls EXCEPT ![c] =
                    [HookIdle EXCEPT !.pc = "awaiting", !.op = "generateResponse", !.hook = h]]
    /\ isLoading' = [isLoading EXCEPT ![h] = TRUE]
    /\ error' = [error EXCEPT ![h] = None]
    /\ UNCHANGED << vendorVars, svcVars, lastChat, googleAIService, env, configuredKey,
                    rendered, props, effectPending, isReady, inits >>

\* generateResponse(prompt) up to the await.  The prompt goes to the vendor
\* as it is and is not kept.
CallGenerateResponse(c, h) ==
    /\ rendered[h]
    /\ FreeSlot(c)
    /\ IF googleAIService = None
       THEN /\ calls' = [calls EXCEPT ![c] = Rejected("generateResponse", h)]
            /\ UNCHANGED << isLoading, error >>
       ELSE /\ calls' = [calls EXCEPT ![c] =
                            [HookIdle EXCEPT !.pc = "awaiting", !.op = "generateResponse", !.hook = h]]
            /\ isLoading' = [isLoading EXCEPT ![h] = TRUE]
            /\ error' = [error EXCEPT ![h] = None]
    /\ UNCHANGED << vendorVars, svcVars, lastChat, googleAIService, env, configuredKey,
                    rendered, props, effectPending, isReady, inits >>

SettleGenerateResponse(c, vendorOutcome) ==
    /\ calls[c].pc = "awaiting"
    /\ LET h == calls[c].hook
           response == generateContent(vendorOutcome)
           r == generateResponse(response)
       IN  /\ calls' = [calls EXCEPT ![c] =
                          [@ EXCEPT !.pc = "settled", !.inner = response,
                                    !.outcome = [raised |-> FALSE, thrown |-> None,
                                                 value |-> Some(r.returned)]]]
           /\ error' = AfterSetError(h, r)
           /\ isLoading' = AfterSetIsLoading(h, r)
    /\ UNCHANGED << vendorVars, svcVars, lastChat, googleAIService, env, configuredKey,
                    rendered, props, effectPending, isReady, inits >>

\* generateResponseStream(prompt, onChunk) up to the await.
CallGenerateResponseStream(c, h) ==
    /\ rendered[h]
    /\ FreeSlot(c)
    /\ IF googleAIService = None
       THEN /\ calls' = [calls EXCEPT ![c] = Rejected("generateResponseStream", h)]
            /\ UNCHANGED << isLoading, error >>
       ELSE /\ calls' = [calls EXCEPT ![c] =
                            [HookIdle EXCEPT !.pc = "streaming", !.op = "generateResponseStream",
                                             !.hook = h]]
            /\ isLoading' = [isLoading EXCEPT ![h] = TRUE]
            /\ error' = [error EXCEPT ![h] = None]
    /\ UNCHANGED << vendorVars, svcVars, lastChat, googleAIService, env, configuredKey,
                    rendered, props, effectPending, isReady, inits >>

\* What the vendor's stream may do next for the call in slot c.
HookStreamEvents(c) ==
    { StreamEvent("chunk", Alphabet[Len(calls[c].arrived) + 1], None) : x \in
          IF Len(calls[c].arrived) < MaxChunks THEN { 1 } ELSE { } }
        \cup { StreamEvent("end", "", None) }
        \cup { StreamEvent("fail", "", Some(e)) : e \in HookThrown }

\* One resumption of a streaming call: the Adapter's generateContentStream
\* takes the event; when that settles, the hook's catch and finally run.
ResumeGenerateResponseStream(c, event) ==
    /\ calls[c].pc = "streaming"
    /\ LET h == calls[c].hook
           inner == generateContentStream(
                        [ pc |-> "streaming", onChunkCalls |-> calls[c].onChunkCalls,
                          outcome |-> calls[c].inner ], event)
       IN  IF inner.pc = "settled"
           THEN LET r == generateResponseStream(inner.outcome)
                IN  /\ calls' = [calls EXCEPT ![c] =
                                   [@ EXCEPT !.pc = "settled", !.inner = inner.outcome,
                                             !.onChunkCalls = inner.onChunkCalls,
                                             !.outcome =
                                                 [raised |-> r.rejects,
                                                  thrown |-> IF r.rejects THEN inner.outcome.thrown
                                                                          ELSE None,
                                                  value |-> None]]]
                    /\ error' = AfterSetError(h, r)
                    /\ isLoading' = AfterSetIsLoading(h, r)
           ELSE /\ calls' = [calls EXCEPT ![c] =
                               [@ EXCEPT !.arrived = Append(@, event.text),
                                         !.onChunkCalls = inner.onChunkCalls]]
                /\ UNCHANGED << isLoading, error >>
    /\ UNCHANGED << vendorVars, svcVars, lastChat, googleAIService, env, configuredKey,
                    rendered, props, effectPending, isReady, inits >>

\* startChatSession(): synchronous.
CallStartChatSession(c, h) ==
    /\ rendered[h]
    /\ FreeSlot(c)
    /\ IF googleAIService = None
       THEN /\ calls' = [calls EXCEPT ![c] = Rejected("startChatSession", h)]
            /\ UNCHANGED lastChat
       ELSE /\ calls' = [calls EXCEPT ![c] =
                            [HookIdle EXCEPT !.pc = "settled", !.op = "startChatSession", !.hook = h]]
            /\ lastChat' = Some(startChat(googleAIService[1], None))
    /\ UNCHANGED << vendorVars, svcVars, googleAIService, env, configuredKey,
                    reactVars, inits >>

\* Module load, with the hook instances and the call slots of the run, and
\* the override and constant the process runs with.
InitHooks(H, S, E, K) ==
    /\ genAIClients = 0
    /\ modelHandles = 0
    /\ adapter = None
    /\ lastCtor = None
    /\ call = Idle
    /\ lastChat = None
    /\ googleAIService = None
    /\ env \in E
    /\ configuredKey \in K
    /\ rendered = [h \in H |-> FALSE]
    /\ props = [h \in H |-> None]
    /\ effectPending = [h \in H |-> FALSE]
    /\ isLoading = [h \in H |-> FALSE]
    /\ isReady = [h \in H |-> FALSE]
    /\ error = [h \in H |-> None]
    /\ inits = << >>
    /\ calls = [c \in S |-> HookIdle]

Next ==
    \/ \E h \in Hooks, modelName \in HookModelNames : Render(h, modelName)
    \/ \E h \in Hooks : RunEffect(h)
    \/ ResumeInit
    \/ \E c \in Slots, h \in Hooks : CallGenerateResponse(c, h)
    \/ \E c \in Slots, vendorOutcome \in HookVendorOutcomes : SettleGenerateResponse(c, vendorOutcome)
    \/ \E c \in Slots, h \in Hooks : CallGenerateResponseStream(c, h)
    \/ \E c \in Slots : \E event \in HookStreamEvents(c) : ResumeGenerateResponseStream(c, event)
    \/ \E c \in Slots, h \in Hooks : CallStartChatSession(c, h)

\* Two components use the hook; the steps are those of their initialization.
Init == InitHooks({ "h1", "h2" }, { }, EnvValues, ConfiguredKeys)

NextInit ==
    \/ \E h \in Hooks, modelName \in HookModelNames : Render(h, modelName)
    \/ \E h \in Hooks : RunEffect(h)
    \/ ResumeInit

Spec == Init /\ [][NextInit]_vars

\* One component uses the hook, with the constant as shipped and no override;
\* its callers' calls may overlap.
InitOverlap == InitHooks({ "h1" }, { "c1", "c2" }, { None }, { "YOUR_API_KEY" })

SpecOverlap == InitOverlap /\ [][Next]_vars

(***************************************************************************)
(* Properties of GoogleAIService                                           *)
(***************************************************************************)

\* C1: a construction with an empty apiKey throws, whatever the modelName,
\* and constructs neither a vendor client nor a model handle (and leaves the
\* instance the caller already holds alone).  Stated of every step that ends
\* with the latest construction being one with an empty apiKey, the
\* construction itself among them.
C1_EmptyKeyFails ==
    [][ (lastCtor' # None /\ lastCtor'[1].config.apiKey = "")
            => /\ lastCtor'[1].threw
               /\ genAIClients' = genAIClients
               /\ modelHandles' = modelHandles
               /\ adapter' = adapter ]_vars

C1_Witness ==
    /\ lastCtor # None
    /\ lastCtor[1].config.apiKey = ""
    /\ lastCtor[1].config.modelName = "gemini-2.0-flash"
    /\ lastCtor[1].threw
    /\ adapter # None
    /\ genAIClients = 1

\* The derived configs of the catalog, entry by entry.
ExpectedCatalogConfig ==
    "gemini-pro"            :> [temperature |-> 90, maxOutputTokens |-> 2048] @@
    "gemini-pro-vision"     :> [temperature |-> 90, maxOutputTokens |-> 2048] @@
    "gemini-1.5-pro"        :> [temperature |-> 90, maxOutputTokens |-> 8192] @@
    "gemini-1.5-flash"      :> [temperature |-> 90, maxOutputTokens |-> 8192] @@
    "gemini-2.0-flash"      :> [temperature |-> 40, maxOutputTokens |-> 8192] @@
    "gemini-2.0-flash-lite" :> [temperature |-> 40, maxOutputTokens |-> 8192] @@
    "gemini-2.0-pro"        :> [temperature |-> 40, maxOutputTokens |-> 8192]

\* C2: an instance constructed without a generationConfig has the config
\* derived from its model name, first match wins: "gemini-2.0" gives
\* temperature 0.4 and 8192 tokens, else "gemini-1.5" gives 0.9 and 8192,
\* otherwise 0.9 and 2048; topK 1 and topP 0.95 always.  For the names of
\* the catalog this is the table ExpectedCatalogConfig.
C2_DerivedConfig ==
    (lastCtor # None /\ ~lastCtor[1].threw /\ lastCtor[1].config.generationConfig = None)
        => LET name == adapter[1].modelName
               g    == adapter[1].model.generationConfig
           IN  /\ g.topK = 1
               /\ g.topP = 95
               /\ includes(name, "gemini-2.0")
                    => g.temperature = 40 /\ g.maxOutputTokens = 8192
               /\ (~includes(name, "gemini-2.0") /\ includes(name, "gemini-1.5"))
                    => g.temperature = 90 /\ g.maxOutputTokens = 8192
               /\ (~includes(name, "gemini-2.0") /\ ~includes(name, "gemini-1.5"))
                    => g.temperature = 90 /\ g.maxOutputTokens = 2048
               /\ lastCtor[1].config.modelName \in CatalogNames
                    => /\ name = lastCtor[1].config.modelName
                       /\ g.temperature = ExpectedCatalogConfig[name].temperature
                       /\ g.maxOutputTokens = ExpectedCatalogConfig[name].maxOutputTokens

C2_Witness ==
    /\ lastCtor # None
    /\ ~lastCtor[1].threw
    /\ lastCtor[1].config.generationConfig = None
    /\ lastCtor[1].config.modelName = "gemini-1.5-flash"
    /\ adapter[1].model.generationConfig
         = [temperature |-> 90, topK |-> 1, topP |-> 95, maxOutputTokens |-> 8192]

\* C3: generateContent never raises for a failure of the vendor: when the
\* vendor call, the response or the reading of its text fails, the call
\* returns text "" with error set; when the vendor answers, it returns the
\* vendor's text and no error.
C3_GenerateNeverRaises ==
    (call.pc = "settled" /\ call.op = "generateContent")
        => /\ ~call.outcome.raised
           /\ call.outcome.value # None
           /\ call.vendor.kind = "ok"
                => /\ call.outcome.value[1].text = call.vendor.text
                   /\ call.outcome.value[1].error = None
           /\ call.vendor.kind # "ok"
                => /\ call.outcome.value[1].text = ""
                   /\ call.outcome.value[1].error # None

C3_Witness ==
    /\ call.pc = "settled"
    /\ call.op = "generateContent"
    /\ call.vendor.kind = "responseRejects"
    /\ call.vendor.thrown = Some([isError |-> TRUE, message |-> "quota exceeded"])
    /\ call.outcome.value = Some([text |-> "", error |-> Some("quota exceeded")])

\* C4: generateContentStream hands each chunk of the vendor stream to
\* onChunk exactly once, in arrival order; it resolves when the stream ends,
\* and when the stream fails after k chunks the caller has seen exactly
\* those k onChunk calls and then the failure the vendor raised.
C4_StreamChunksInOrder ==
    (call.op = "generateContentStream")
        => /\ call.onChunkCalls = SubSeq(call.stream.chunks, 1, call.pos)
           /\ call.pc = "settled"
                => /\ call.onChunkCalls = call.stream.chunks
                   /\ call.stream.fail = None => ~call.outcome.raised
                   /\ call.stream.fail # None
                        => /\ call.outcome.raised
                           /\ call.outcome.thrown = call.stream.fail

C4_Witness ==
    /\ call.op = "generateContentStream"
    /\ call.pc = "settled"
    /\ call.stream.chunks = << "A", "B" >>
    /\ call.stream.fail # None
    /\ call.onChunkCalls = << "A", "B" >>
    /\ call.outcome.raised

\* C8: the generation config startChat gives the new session is the one the
\* instance's model handle was constructed with, also for an instance
\* constructed with a caller-supplied generationConfig; history defaults to
\* the empty sequence.
C8_ChatUsesAdapterConfig ==
    lastChat # None
        => /\ lastChat[1].generationConfig = lastChat[1].handleConfig
           /\ lastChat[1].historyArg = None => lastChat[1].history = <<>>

(***************************************************************************)
(* Properties of the hook useGoogleAI                                      *)
(***************************************************************************)

\* C5: a call of the hook whose effect runs when the shared instance exists
\* (a second call, after the first call's initialization completed) leaves
\* the instance and its model binding as they are, whatever modelName it
\* asks for: it constructs nothing and suspends no initialization.  The
\* instance is only ever bound by an initialization that found none and was
\* suspended, to the modelName that initialization asked for.
C5_SecondCallKeepsFirstModel ==
    [][ /\ \A h \in Hooks :
              (effectPending[h] /\ ~effectPending'[h] /\ googleAIService # None)
                  => /\ googleAIService' = googleAIService
                     /\ genAIClients' = genAIClients
                     /\ modelHandles' = modelHandles
                     /\ inits' = inits
        /\ googleAIService' # googleAIService
              => /\ inits # << >>
                 /\ inits' = Tail(inits)
                 /\ googleAIService'[1].modelName =
                        IF Head(inits).modelName = None THEN "gemini-pro"
                        ELSE Head(inits).modelName[1] ]_vars

C5_Witness ==
    /\ googleAIService # None
    /\ googleAIService[1].modelName = "gemini-pro"
    /\ props["h1"] = Some("gemini-2.0-flash")
    /\ ~effectPending["h1"]
    /\ isReady["h1"]
    /\ ~rendered["h2"]
    /\ inits = << >>
    /\ genAIClients = 1

\* C6: the shared instance is constructed at most once in a process
\* lifetime, for every interleaving of the hooks' initializations.
C6_ConstructedAtMostOnce ==
    /\ genAIClients <= 1
    /\ modelHandles <= 1

InFlight(c) == calls[c].pc \in { "awaiting", "streaming" }

\* C7: a call of generateResponse or generateResponseStream that passes the
\* initialization check sets isLoading when it starts and clears it when it
\* ends, whether the vendor answered or failed; and after every step that
\* leaves no call in flight, isLoading is false.
C7_LoadingToggles ==
    [][ /\ \A c \in Slots :
              /\ (~InFlight(c) /\ InFlight(c)') => isLoading'[calls'[c].hook]
              /\ (InFlight(c) /\ ~InFlight(c)') => ~isLoading'[calls[c].hook]
        /\ (\A c \in Slots : ~InFlight(c)') => \A h \in Hooks : ~isLoading'[h] ]_vars

C7_Witness ==
    /\ calls["c1"].pc = "settled"
    /\ calls["c1"].op = "generateResponseStream"
    /\ calls["c1"].inner.raised
    /\ calls["c2"].pc = "settled"
    /\ calls["c2"].op = "generateResponse"
    /\ calls["c2"].inner.value # None
    /\ calls["c2"].inner.value[1].error # None
    /\ ~isLoading["h1"]

\* C9: getApiKey returns the override when it is present and not empty, and
\* the configured fallback otherwise, unvalidated; with a fallback that is
\* not empty its result is not empty.  Stated of the key every suspended
\* initialization holds and of the key the shared instance was given.
C9_ApiKeyResolution ==
    LET expected == IF env = None \/ env = Some("") THEN configuredKey ELSE env[1]
    IN  /\ \A k \in 1 .. Len(inits) :
              /\ inits[k].apiKey = expected
              /\ configuredKey # "" => inits[k].apiKey # ""
        /\ googleAIService # None => googleAIService[1].genAI = expected

C9_Witness ==
    /\ env = Some("")
    /\ configuredKey = "YOUR_API_KEY"
    /\ inits # << >>
    /\ inits[1].apiKey = "YOUR_API_KEY"

\* C10: isReady implies that the shared instance exists: it is false while
\* there is no instance, so before a construction has resolved and after an
\* initialization that failed without creating one.
C10_ReadyImpliesInstance ==
    \A h \in Hooks : isReady[h] => googleAIService # None

C10_Witness ==
    /\ isReady["h1"]
    /\ googleAIService # None
    /\ rendered["h2"]
    /\ ~isReady["h2"]

\* C11: calls of generateResponse / generateResponseStream are not mutually
\* excluded.  Of every step in which a call in flight ends: the other
\* slot's call is left as it was, the ending call's outcome is the one of its
\* own vendor round trip (the text or '' for generateResponse, a plain
\* resolution for generateResponseStream), and isLoading is false after the
\* step even when the other call is still in flight.
C11_OverlapIndependentCalls ==
    [][ \A c \in Slots :
          (InFlight(c) /\ ~InFlight(c)') =>
              /\ \A d \in Slots \ { c } : calls'[d] = calls[d]
              /\ ~isLoading'[calls[c].hook]
              /\ ~calls'[c].outcome.raised
              /\ calls[c].op = "generateResponse" =>
                     /\ calls'[c].inner.value # None
                     /\ calls'[c].outcome.value =
                            Some(IF calls'[c].inner.value[1].error = None
                                 THEN calls'[c].inner.value[1].text
                                 ELSE "")
              /\ calls[c].op = "generateResponseStream" =>
                     /\ calls'[c].outcome.value = None
                     /\ calls'[c].onChunkCalls = calls[c].arrived ]_vars

\* One call has ended, the other is still in flight, and isLoading is false.
C11_Witness ==
    /\ calls["c1"].pc = "settled"
    /\ calls["c1"].op = "generateResponse"
    /\ calls["c1"].outcome.value = Some("")
    /\ calls["c2"].pc = "streaming"
    /\ calls["c2"].arrived = << "A" >>
    /\ ~isLoading["h1"]

\* C12: generateResponseStream never rejects for a vendor failure.  Of every
\* step in which a streaming call ends because the Adapter's stream failed
\* after k chunks: onChunk has been called with exactly those k chunks, in
\* order, error is the failure's message ('Unknown error occurred' for a
\* value that is not an Error), isLoading is false, and the call's promise
\* resolves.
C12_StreamFailureSwallowed ==
    [][ \A c \in Slots :
          (calls[c].pc = "streaming" /\ calls'[c].pc = "settled" /\ calls'[c].inner.raised) =>
              LET e == calls'[c].inner.thrown[1]
                  h == calls[c].hook
              IN  /\ ~calls'[c].outcome.raised
                  /\ calls'[c].outcome.thrown = None
                  /\ calls'[c].onChunkCalls = calls[c].arrived
                  /\ calls'[c].arrived = calls[c].arrived
                  /\ error'[h] = Some(IF e.isError THEN e.message ELSE "Unknown error occurred")
                  /\ ~isLoading'[h] ]_vars

\* The stream failed after two chunks; both reached onChunk and the failure
\* shows in error alone.
C12_Witness ==
    /\ calls["c1"].pc = "settled"
    /\ calls["c1"].op = "generateResponseStream"
    /\ calls["c1"].inner.raised
    /\ calls["c1"].onChunkCalls = << "A", "B" >>
    /\ ~calls["c1"].outcome.raised
    /\ error["h1"] = Some("quota exceeded")
    /\ ~isLoading["h1"]

\* C13: while there is no shared instance, a call of generateResponse,
\* generateResponseStream or startChatSession fails with 'Google AI service is
\* not initialized', makes no vendor call, and leaves isLoading, isReady and
\* error as they were.  Stated of every step that changes a call slot while
\* googleAIService is unset.
C13_NotInitializedRejects ==
    [][ \A c \in Slots :
          (googleAIService = None /\ calls'[c] # calls[c]) =>
              /\ calls'[c].pc = "settled"
              /\ calls'[c].op \in { "generateResponse", "generateResponseStream",
                                     "startChatSession" }
              /\ calls'[c].outcome.raised
              /\ calls'[c].outcome.thrown =
                     Some([isError |-> TRUE, message |-> "Google AI service is not initialized"])
              /\ calls'[c].inner = [raised |-> FALSE, thrown |-> None, value |-> None]
              /\ calls'[c].arrived = << >>
              /\ calls'[c].onChunkCalls = << >>
              /\ lastChat' = lastChat
              /\ isLoading' = isLoading
              /\ isReady' = isReady
              /\ error' = error ]_vars

\* Two calls were made while the initialization was suspended at getApiKey,
\* and both failed.
C13_Witness ==
    /\ googleAIService = None
    /\ inits # << >>
    /\ calls["c1"].op = "startChatSession"
    /\ calls["c1"].outcome.raised
    /\ calls["c2"].op = "generateResponseStream"
    /\ calls["c2"].outcome.raised
    /\ ~isLoading["h1"]
    /\ error["h1"] = None

====
